---- MODULE Spec2Model ----
(***************************************************************************)
(* The multi-repository deployment orchestrator (public/deploy.sh and its  *)
(* earlier revision with a container-name hint per service), as a state    *)
(* machine: invocations of the script run concurrently on one host, each   *)
(* walking main() step by step over the host's file system and container   *)
(* runtime.                                                                *)
(***************************************************************************)
EXTENDS Integers, Sequences, FiniteSets, TLC

\* ------------------------------------------------------------------ bounds
\* Invocations of the script in one behaviour, each a process of its own.
MaxRuns == 2
\* The fleet is the first NumRepos records of REPOS.
NumRepos == 2

Procs == 1..MaxRuns

\* --------------------------------------------------------------- text
\* Text the script greps is a sequence of one-character strings.
Chars(s) ==
    CASE s = "9000" -> <<"9", "0", "0", "0">>
      [] s = "80" -> <<"8", "0">>
      [] s = "8080" -> <<"8", "0", "8", "0">>
      [] s = "3000" -> <<"3", "0", "0", "0">>
      [] s = "5432" -> <<"5", "4", "3", "2">>
      [] s = "19000" -> <<"1", "9", "0", "0", "0">>
      [] s = "18080" -> <<"1", "8", "0", "8", "0">>
      [] s = "13000" -> <<"1", "3", "0", "0", "0">>
      [] s = "/tcp" -> <<"/", "t", "c", "p">>

\* ------------------------------------------------------ configuration
\* The revisions of the script with a static routing file.
Revisions == {"deploy", "hinted"}

\* Every revision: "first" has two fields per record, a lock under /tmp and no
\* proxy; "hinted" adds the proxy with a container name per record; "deploy"
\* is public/deploy.sh; "labels" leaves the routes to the containers' labels.
AllRevisions == {"first", "hinted", "deploy", "labels"}

\* The revisions that test what main's first commands return, whose
\* create_network exits and whose install_docker verifies compose.
Guarded(r) == r \in {"first", "hinted"}

\* REPOS of deploy.sh: "repo_name|git_url|internal_port", one field per element.
REPOS ==
    << <<"chess", "https://github.com/namanvashistha/chess.git", "9000">>,
       <<"foodly", "https://github.com/namanvashistha/foodly.git", "80">>,
       <<"hyperbole", "https://github.com/namanvashistha/hyperbole.git", "8080">>,
       <<"limedb", "https://github.com/namanvashistha/limedb.git", "3000">> >>

\* REPOS of the hinted revision: "repo_name|git_url|container_name|internal_port".
REPOS4 ==
    << <<"chess", "https://github.com/namanvashistha/chess.git", "chess_go-app_1", "9000">>,
       <<"foodly", "https://github.com/namanvashistha/foodly.git", "foodly_app_1", "80">>,
       <<"hyperbole", "https://github.com/namanvashistha/hyperbole.git", "hyperbole-web", "8080">>,
       <<"limedb", "https://github.com/namanvashistha/limedb.git", "limedb_web_1", "3000">> >>

\* REPOS of the first and the labels revision: "repo_name|git_url".
REPOS2 ==
    << <<"chess", "https://github.com/namanvashistha/chess.git">>,
       <<"foodly", "https://github.com/namanvashistha/foodly.git">>,
       <<"hyperbole", "https://github.com/namanvashistha/hyperbole.git">>,
       <<"limedb", "https://github.com/namanvashistha/limedb.git">> >>

\* The records the revision r iterates over.
Fleet(r) ==
    SubSeq(CASE r = "deploy" -> REPOS
             [] r = "hinted" -> REPOS4
             [] OTHER -> REPOS2,
           1, NumRepos)

Names == {REPOS[k][1] : k \in 1..NumRepos}

ROOT_DOMAIN == "namanvashistha.com"

\* The environment of an invocation: HOME and SUDO_USER.
Envs ==
    { [HOME |-> "/home/alice", SUDO_USER |-> ""],
      [HOME |-> "/root", SUDO_USER |-> "alice"],
      [HOME |-> "/home/bob", SUDO_USER |-> ""] }

\* eval echo "~user"
HomeOf(user) == IF user = "alice" THEN "/home/alice" ELSE "/home/bob"

\* TARGET_HOME: the sudo-origin user's home when SUDO_USER is set, else HOME.
TARGET_HOME(e) == IF e.SUDO_USER # "" THEN HomeOf(e.SUDO_USER) ELSE e.HOME

\* BASE_DIR; LOG_FILE, LOCK_FILE and CADDY_DIR hang off it.
BASE_DIR(e) == TARGET_HOME(e) \o "/namanvashistha"

\* BASE_DIR of the first revision, whatever the environment; its lock is
\* /tmp/namanvashistha_deploy.lock, one for the host as this directory is.
BASE_DIR_FIRST == "/opt/namanvashistha_deploy"

BaseDirOf(r, e) == IF r = "first" THEN BASE_DIR_FIRST ELSE BASE_DIR(e)

Dirs == {BaseDirOf(r, e) : r \in AllRevisions, e \in Envs}

\* ------------------------------------------------------------ the world
\* What the outside answers. Per service: the remote repository ("main",
\* "master" or "trunk" names the only branch of a reachable remote, "down" is an
\* unreachable one), whether its tree holds a compose file, whether the build
\* succeeds, and the containers `docker compose ps -q` lists after the build,
\* in its order, each with the ports it exposes. For the host: the reply of
\* the public-IP lookup (curl's exit code and output) and the addresses in
\* the resolver's output for the probe domain; whether the base directory and
\* the log file can be made ("ok", "nobase": mkdir -p fails, "nolog": the
\* directory is there but the log file can be neither created nor written).
Container(n, ports) == [name |-> n, ports |-> ports]

DeclaredPort(name) == REPOS[CHOOSE k \in 1..Len(REPOS) : REPOS[k][1] = name][3]

\* A port whose decimal text ends with the text of `port`.
LongerPort(port) == IF port = "80" THEN "8080" ELSE "1" \o port

GroupExact(port) == <<Container("app", <<port>>)>>
GroupNone == <<Container("db", <<"5432">>)>>
GroupLonger(port) == <<Container("dev", <<LongerPort(port)>>)>>
GroupSecond(port) == <<Container("db", <<"5432">>), Container("app", <<port>>)>>
GroupTwo(port) == <<Container("app1", <<port>>), Container("app2", <<"5432", port>>)>>
GroupShadow(port) == <<Container("dev", <<LongerPort(port)>>), Container("app", <<port>>)>>

Groups(name) ==
    LET port == DeclaredPort(name)
    IN  {GroupExact(port), GroupNone, GroupLonger(port), GroupSecond(port),
         GroupTwo(port), GroupShadow(port)}

Remotes == {"main", "master", "trunk", "down"}

FileSystems == {"ok", "nobase", "nolog"}

\* What the installation procedure leaves on the host: the runtime, the
\* compose subcommand.
Installed(runtime, compose) == [runtime |-> runtime, compose |-> compose]
InstallsAllOrNothing == {Installed(TRUE, TRUE), Installed(FALSE, FALSE)}
InstallsAny == InstallsAllOrNothing \cup {Installed(TRUE, FALSE)}

IpA == "203.0.113.7"
IpB == "198.51.100.9"

Lookups == {[rc |-> 0, out |-> IpA], [rc |-> 0, out |-> ""], [rc |-> 28, out |-> ""]}
Resolutions == {<<>>, <<IpA>>, <<IpB>>}


\* ------------------------------------------------------- pure functions
\* IFS='|' read -r repo_name repo_url internal_port, and the default port.
ReadRepo(rec) ==
    [repo_name |-> rec[1],
     repo_url |-> IF Len(rec) >= 2 THEN rec[2] ELSE "",
     internal_port |-> IF Len(rec) >= 3 /\ rec[3] # "" THEN rec[3] ELSE "80"]

\* The hinted revision's deploy_repo: ${repo_info%%|*} and ${repo_info##*|}.
CutRepo(rec) == [repo_name |-> rec[1], repo_url |-> rec[Len(rec)]]

\* The hinted revision's setup_caddy: read of four fields, and the defaults.
ReadRepo4(rec) ==
    [repo_name |-> rec[1],
     repo_url |-> IF Len(rec) >= 2 THEN rec[2] ELSE "",
     container_name |-> IF Len(rec) >= 3 /\ rec[3] # "" THEN rec[3] ELSE rec[1],
     internal_port |-> IF Len(rec) >= 4 /\ rec[4] # "" THEN rec[4] ELSE "80"]

RECURSIVE JsonPorts(_)
\* {{json .Config.ExposedPorts}}: one "<port>/tcp":{} member per port.
JsonPorts(ports) ==
    IF ports = <<>> THEN <<>>
    ELSE <<"\"">> \o Chars(Head(ports)) \o Chars("/tcp") \o <<"\"", ":", "{", "}">>
         \o (IF Len(ports) > 1 THEN <<",">> ELSE <<>>) \o JsonPorts(Tail(ports))

\* docker inspect --format '{{json .NetworkSettings.Ports}} {{json .Config.ExposedPorts}}'
Inspect(c) ==
    <<"{">> \o JsonPorts(c.ports) \o <<"}", " ", "{">> \o JsonPorts(c.ports) \o <<"}">>

\* grep -q pattern: the pattern occurs somewhere in the text.
Grep(pattern, text) ==
    \E k \in 1..(Len(text) - Len(pattern) + 1) :
        SubSeq(text, k, k + Len(pattern) - 1) = pattern

\* docker inspect --format '{{.Name}}' | sed 's/^\///'
InspectName(c) == <<"/", c.name>>
StripSlash(t) == IF t # <<>> /\ Head(t) = "/" THEN Tail(t) ELSE t

\* One container of the discovery loop: does its inspect output match?
Matches(c, internal_port) ==
    \E pattern \in {Chars(internal_port) \o Chars("/tcp")}, text \in {Inspect(c)} :
        Grep(pattern, text)

\* The discovery loop: the first listed container that matches, "" if none.
Discover(group, internal_port) ==
    LET hits == {k \in 1..Len(group) : Matches(group[k], internal_port)}
    IN  IF hits = {} THEN ""
        ELSE LET first == CHOOSE k \in hits : \A j \in hits : k <= j
             IN  StripSlash(InspectName(group[first]))[1]

\* public_ip=$(curl -s --max-time 3 ifconfig.me || echo "unknown")
PublicIp(lookup) == IF lookup.rc = 0 THEN lookup.out ELSE lookup.out \o "unknown"

\* domain_ip: the first address of ping's output (deploy.sh), the last line
\* of dig's (hinted); empty when there is none.
DomainIp(r, answer) ==
    IF answer = <<>> THEN ""
    ELSE IF r = "deploy" THEN Head(answer) ELSE answer[Len(answer)]

\* ENABLE_TLS
EnableTls(public_ip, domain_ip) == public_ip # "unknown" /\ public_ip = domain_ip


\* ------------------------------------------------------------- logging
\* A line of output: the severity marker after the timestamp ("" for none)
\* and the message.
Line(sev, msg) == [sev |-> sev, msg |-> msg]

\* echo "..." with its standard output connected to fd: 1 is the pipe that
\* follows, 2 (>&2) the standard error.
Echo(line, fd) ==
    [stdout |-> IF fd = 1 THEN <<line>> ELSE <<>>,
     stderr |-> IF fd = 2 THEN <<line>> ELSE <<>>]

\* tee "$LOG_FILE", without -a: the file is opened with truncation.
TeeTruncating(input, file, writable) == IF writable THEN input ELSE file

\* tee -a "$LOG_FILE": what arrives on the pipe is appended to the file,
\* when the file can be opened.
Tee(input, file, writable) == IF writable THEN file \o input ELSE file

\* log() { echo "[...] $1" | tee -a "$LOG_FILE"; }
Log(file, msg, writable) == Tee(Echo(Line("", msg), 1).stdout, file, writable)

\* error() { echo "[...] ERROR: $1" >&2 | tee -a "$LOG_FILE"; }
Error(file, msg, writable) == Tee(Echo(Line("ERROR", msg), 2).stdout, file, writable)

RECURSIVE Say(_, _, _)
\* A sequence of calls <<"log" or "error", message>> on the log file.
Say(file, calls, writable) ==
    IF calls = <<>> THEN file
    ELSE Say(IF Head(calls)[1] = "error"
             THEN Error(file, Head(calls)[2], writable)
             ELSE Log(file, Head(calls)[2], writable),
             Tail(calls), writable)

\* How many of the calls are calls of error().
Errors(calls) == Cardinality({k \in 1..Len(calls) : calls[k][1] = "error"})

\* The lines of a log file that carry the ERROR marker.
ErrorLines(file) == SelectSeq(file, LAMBDA l : l.sev = "ERROR")

\* $failed_repos as the shell expands it.
Decimal(n) ==
    CASE n = 0 -> "0"
      [] n = 1 -> "1"
      [] n = 2 -> "2"
      [] n = 3 -> "3"
      [] n = 4 -> "4"


\* ---------------------------------------------------------------- state
VARIABLES
    rev,        \* the revision of the script installed on the host
    world,      \* the outside's answers
    lockDir,    \* per base directory: the pid that made $LOCK_FILE.dir, 0 if absent
    checkout,   \* per base directory: the services whose checkout exists
    caddyfile,  \* per base directory: $CADDY_DIR/Caddyfile, a sequence of blocks
    docker,     \* what is installed: [runtime, compose]
    network,    \* $DOCKER_NETWORK exists
    proxy,      \* the base directory whose Caddyfile caddy_proxy mounts, "none" if not running
    proc,       \* per invocation: its position in main and its shell variables
    host,       \* who invokes the script on this host, whether runs may overlap,
                \* and what an installation of the runtime can leave behind
    completed,  \* per base directory: the Caddyfile left by each run that reached its exit 0
    served,     \* the OAuth relay: the requests it has answered, each with its response
    posted      \* the OAuth relay: the bodies it has posted to the token endpoint

vars == <<rev, world, lockDir, checkout, caddyfile, docker, network, proxy, proc, host, completed,
          served, posted>>

\* The position of an invocation: "idle" (not started), the steps of main,
\* "exited".
Running(p) == proc[p].pc \notin {"idle", "exited"}

\* The shell variables of an invocation right after the configuration lines:
\* BASE_DIR is computed once, from the environment the script was started in.
Fresh(e) ==
    [pc |-> "setup", BASE_DIR |-> BaseDirOf(rev, e), i |-> 1, failed_repos |-> 0, ENABLE_TLS |-> FALSE,
     public_ip |-> "", domain_ip |-> "", trap |-> FALSE, rc |-> 0, ops |-> <<>>,
     sawLock |-> FALSE, made |-> FALSE, errors |-> 0, log |-> <<>>, summary |-> ""]

Idle == [Fresh(CHOOSE e \in Envs : TRUE) EXCEPT !.pc = "idle"]

Dir(p) == proc[p].BASE_DIR

\* The order of main's steps in each revision.
AfterPc(r, pc) ==
    CASE pc = "setup" -> "lock"
      [] pc = "lock" -> "trap"
      [] pc = "trap" -> "deps"
      [] pc = "deps" -> "net"
      [] pc = "net" -> IF r \in Revisions THEN "tls" ELSE "loop"
      [] pc = "tls" -> "trunc"
      [] pc = "trunc" -> IF r = "deploy" THEN "loop" ELSE "fill"
      [] pc = "fill" -> "caddy"
      [] pc = "loop" -> IF Guarded(r) THEN "summary" ELSE "caddy"
      [] pc = "caddy" -> IF r = "hinted" THEN "loop" ELSE "summary"

Goto(p, pc) == proc' = [proc EXCEPT ![p].pc = pc]
Step(p) == Goto(p, AfterPc(rev, proc[p].pc))

\* The calls of log and error an invocation makes: the lines they append to
\* the log file, and the count of the calls of error.
Report(pr, calls) ==
    [pr EXCEPT !.log = Say(@, calls, world.fs = "ok"), !.errors = @ + Errors(calls)]

\* The invocation goes on to the next step of main after these calls.
StepSaying(p, calls) ==
    LET pr == Report(proc[p], calls)
    IN  proc' = [proc EXCEPT ![p] = [pr EXCEPT !.pc = AfterPc(rev, pr.pc)]]

\* What is left of an invocation once its process is gone: its exit code, and
\* for the record its base directory, whether it found the lock taken,
\* whether it made the lock directory and whether it had set the trap, its
\* summary line and, when it left by `exit 1`, how often it had called error
\* and the ERROR lines it had appended to the log file.
Gone(pr, code) ==
    [Idle EXCEPT !.pc = "exited", !.BASE_DIR = pr.BASE_DIR, !.rc = code,
                 !.sawLock = pr.sawLock, !.made = pr.made, !.trap = pr.trap,
                 !.errors = IF code = 1 THEN pr.errors ELSE 0,
                 !.log = IF code = 1 THEN ErrorLines(pr.log) ELSE <<>>,
                 !.summary = pr.summary]

\* An exit on which no trap runs.
ExitWithNoTrap(p, pr, code, run_trap) ==
    /\ proc' = [proc EXCEPT ![p] = Gone(pr, code)]
    /\ UNCHANGED lockDir

\* The process, its variables being pr, ends with `code`; the EXIT trap, if
\* set, removes the lock directory.
ExitWith(p, pr, code, run_trap) ==
    /\ proc' = [proc EXCEPT ![p] = Gone(pr, code)]
    /\ lockDir' = IF run_trap /\ pr.trap
                  THEN [lockDir EXCEPT ![pr.BASE_DIR] = 0]
                  ELSE lockDir


\* ------------------------------------------------------------ deploy_repo
SourceUrl(name) == REPOS[CHOOSE k \in 1..Len(REPOS) : REPOS[k][1] = name][2]

\* The log file can be opened for appending. A command redirected to it
\* (>> "$LOG_FILE") is not run and fails when it cannot.
LogWritable == world.fs = "ok"

\* git clone "$repo_url": succeeds when the URL is that of a reachable remote.
CloneOk(url) == \E n \in Names : url = SourceUrl(n) /\ world.svc[n].remote # "down"

\* git pull origin <branch> in a checkout of service `name`.
PullOk(name, branch) == world.svc[name].remote = branch

\* Sync cloning whether or not the checkout exists.
SyncReclone(name, url, had) ==
    LET ok == LogWritable /\ CloneOk(url)
    IN  [ok |-> ok, has |-> had \/ ok, ops |-> IF LogWritable THEN <<"clone", url>> ELSE <<>>]

\* Sync with `git stash` not followed by `|| true`.
SyncStashFatal(name, url, had) ==
    IF ~had
    THEN LET ok == LogWritable /\ CloneOk(url)
         IN  [ok |-> ok, has |-> ok, ops |-> IF LogWritable THEN <<"clone", url>> ELSE <<>>]
    ELSE LET stashed == LogWritable /\ world.svc[name].stash
             main == LogWritable /\ PullOk(name, "main")
             master == LogWritable /\ PullOk(name, "master")
         IN  [ok |-> stashed /\ (main \/ master),
              has |-> TRUE,
              ops |-> IF ~LogWritable THEN <<>>
                      ELSE <<"stash", "pull main">> \o (IF main THEN <<>> ELSE <<"pull master">>)]

\* Clone when there is no checkout, else stash (its status ignored: || true)
\* and pull main, then master when that failed.
\* [ok, has: the checkout exists afterwards, ops: the git commands run, the
\* clone followed by the URL it was given].
Sync(name, url, had) ==
    IF ~had
    THEN LET ok == LogWritable /\ CloneOk(url)
         IN  [ok |-> ok, has |-> ok, ops |-> IF LogWritable THEN <<"clone", url>> ELSE <<>>]
    ELSE LET stashed == LogWritable /\ world.svc[name].stash
             main == LogWritable /\ PullOk(name, "main")
             master == LogWritable /\ PullOk(name, "master")
         IN  [ok |-> (stashed \/ TRUE) /\ (main \/ master),
              has |-> TRUE,
              ops |-> IF ~LogWritable THEN <<>>
                      ELSE <<"stash", "pull main">> \o (IF main THEN <<>> ELSE <<"pull master">>)]

\* The manifest test with no effect.
HasManifestAlways(w) == TRUE

\* [ -f docker-compose.yml ] || [ -f docker-compose.yaml ]
HasManifest(w) == w.manifest

\* docker compose up -d --build: needs the compose subcommand.
Built(w) == docker.compose /\ w.build

\* A step whose failure makes deploy_repo fail (cmd || return 1).
Required(status) == status

\* cmd || true: the step counts as done whatever cmd returned.
BestEffort(status) == status \/ TRUE

\* docker compose ps -q | xargs -r docker update --restart unless-stopped >> "$LOG_FILE" 2>&1
UpdatePolicy(w) == LogWritable /\ w.policy

\* docker network connect "$DOCKER_NETWORK" "$live_container" >> "$LOG_FILE" 2>&1
Connect(w) == LogWritable /\ network /\ w.join

\* A block whose scheme is chosen per service: TLS for the first record only.
BlockTlsFirstOnly(tls, repo_name, container, internal_port) ==
    [scheme |-> IF tls /\ repo_name = Fleet(rev)[1][1] THEN "" ELSE "http://",
     site |-> repo_name \o "." \o ROOT_DOMAIN,
     name |-> repo_name,
     upstream |-> container,
     port |-> internal_port]

\* One block of the Caddyfile.
Block(tls, repo_name, container, internal_port) ==
    [scheme |-> IF tls THEN "" ELSE "http://",
     site |-> repo_name \o "." \o ROOT_DOMAIN,
     name |-> repo_name,
     upstream |-> container,
     port |-> internal_port]

\* deploy_repo returning 1 when the discovery finds no container.
DeployRepoStrict(rec, had, file, tls) ==
    LET f == ReadRepo(rec)
        w == world.svc[f.repo_name]
        sync == Sync(f.repo_name, f.repo_url, had)
        live_container == Discover(w.group, f.internal_port)
        hello == << <<"log", "--- Deploying: " \o f.repo_name \o " ---">> >>
    IN  IF ~sync.ok
        THEN [rc |-> 1, has |-> sync.has, file |-> file, ops |-> sync.ops,
              said |-> hello \o << <<"error", IF had THEN "Pull failed." ELSE "Clone failed.">> >>]
        ELSE IF ~HasManifest(w)
        THEN [rc |-> 1, has |-> TRUE, file |-> file, ops |-> sync.ops \o <<"cd">>,
              said |-> hello \o << <<"error", "No docker-compose file found.">> >>]
        ELSE IF ~(LogWritable /\ Built(w))
        THEN [rc |-> 1, has |-> TRUE, file |-> file, ops |-> sync.ops \o <<"cd", "build">>,
              said |-> hello \o << <<"error", "Compose failed.">> >>]
        ELSE IF live_container # ""
        THEN [rc |-> 0, has |-> TRUE,
              file |-> Append(file, Block(tls, f.repo_name, live_container, f.internal_port)),
              ops |-> sync.ops \o <<"cd", "build", "policy", "discover", "connect", "route">>,
              said |-> hello \o << <<"log", "Bridging " \o live_container \o " to Caddy via port "
                                             \o f.internal_port>>,
                                  <<"log", "Success: " \o f.repo_name>> >>]
        ELSE [rc |-> 1, has |-> TRUE, file |-> file,
              ops |-> sync.ops \o <<"cd", "build", "policy", "discover">>,
              said |-> hello \o << <<"log", "Success: " \o f.repo_name>> >>]

\* deploy_repo of deploy.sh on one record: its return code, whether the
\* checkout exists afterwards, the Caddyfile afterwards, the commands run,
\* the calls of log and error.
DeployRepo(rec, had, file, tls) ==
    LET f == ReadRepo(rec)
        w == world.svc[f.repo_name]
        sync == Sync(f.repo_name, f.repo_url, had)
        live_container == Discover(w.group, f.internal_port)
        hello == << <<"log", "--- Deploying: " \o f.repo_name \o " ---">> >>
    IN  IF ~sync.ok
        THEN [rc |-> 1, has |-> sync.has, file |-> file, ops |-> sync.ops,
              said |-> hello \o << <<"error", IF had THEN "Pull failed." ELSE "Clone failed.">> >>]
        ELSE IF ~HasManifest(w)
        THEN [rc |-> 1, has |-> TRUE, file |-> file, ops |-> sync.ops \o <<"cd">>,
              said |-> hello \o << <<"error", "No docker-compose file found.">> >>]
        ELSE IF ~(LogWritable /\ Built(w))
        THEN [rc |-> 1, has |-> TRUE, file |-> file, ops |-> sync.ops \o <<"cd", "build">>,
              said |-> hello \o << <<"error", "Compose failed.">> >>]
        ELSE IF live_container # ""
        THEN [rc |-> IF BestEffort(UpdatePolicy(w)) /\ BestEffort(Connect(w)) THEN 0 ELSE 1,
              has |-> TRUE,
              file |-> Append(file, Block(tls, f.repo_name, live_container, f.internal_port)),
              ops |-> sync.ops \o <<"cd", "build", "policy", "discover", "connect", "route">>,
              said |-> hello \o << <<"log", "Bridging " \o live_container \o " to Caddy via port "
                                             \o f.internal_port>>,
                                  <<"log", "Success: " \o f.repo_name>> >>]
        ELSE [rc |-> IF BestEffort(UpdatePolicy(w)) THEN 0 ELSE 1, has |-> TRUE, file |-> file,
              ops |-> sync.ops \o <<"cd", "build", "policy", "discover">>,
              said |-> hello \o << <<"log", "Success: " \o f.repo_name>> >>]

\* deploy_repo of the hinted revision: no discovery, no routing.
DeployRepo4(rec, had, file) ==
    LET f == CutRepo(rec)
        w == world.svc[f.repo_name]
        sync == Sync(f.repo_name, f.repo_url, had)
        hello == << <<"log", "--------------------------------------------------">>,
                    <<"log", "Starting deployment for: " \o f.repo_name>>,
                    IF had
                    THEN <<"log", "Directory exists. Pulling latest changes for " \o f.repo_name \o "...">>
                    ELSE <<"log", "Cloning " \o f.repo_name \o " from " \o f.repo_url \o "...">> >>
                 \o (IF had /\ ~PullOk(f.repo_name, "main")
                     THEN << <<"log", "Failed to pull main, trying master...">> >>
                     ELSE <<>>)
        building == << <<"log", "Building and starting containers for " \o f.repo_name \o "...">> >>
    IN  IF ~sync.ok
        THEN [rc |-> 1, has |-> sync.has, file |-> file, ops |-> sync.ops,
              said |-> hello \o << <<"error",
                           IF had
                           THEN "Failed to pull latest changes for " \o f.repo_name \o ". Skipping."
                           ELSE "Failed to clone " \o f.repo_name \o ". Skipping.">> >>]
        ELSE IF ~HasManifest(w)
        THEN [rc |-> 1, has |-> TRUE, file |-> file, ops |-> sync.ops \o <<"cd">>,
              said |-> hello \o << <<"error", "No docker-compose.yml found in " \o f.repo_name
                                              \o ". Skipping.">> >>]
        ELSE IF ~Built(w)
        THEN [rc |-> 1, has |-> TRUE, file |-> file, ops |-> sync.ops \o <<"cd", "build">>,
              said |-> hello \o building
                         \o << <<"error", "Docker compose failed for " \o f.repo_name \o ".">> >>]
        ELSE [rc |-> 0, has |-> TRUE, file |-> file,
              ops |-> sync.ops \o <<"cd", "build", "policy">>,
              said |-> hello \o building
                         \o << <<"log", "Successfully deployed " \o f.repo_name \o ".">> >>]

RECURSIVE Blocks4(_, _)
\* setup_caddy of the hinted revision: one block per record of REPOS.
Blocks4(recs, tls) ==
    IF recs = <<>> THEN <<>>
    ELSE LET f == ReadRepo4(Head(recs))
         IN  <<Block(tls, f.repo_name, f.container_name, f.internal_port)>>
             \o Blocks4(Tail(recs), tls)

\* deploy_repo of the labels revision: two fields, no discovery, no routing.
DeployRepo2(rec, had, file) ==
    LET f == ReadRepo(rec)
        w == world.svc[f.repo_name]
        sync == Sync(f.repo_name, f.repo_url, had)
        hello == << <<"log", "--- Deploying: " \o f.repo_name \o " ---">> >>
    IN  IF ~sync.ok
        THEN [rc |-> 1, has |-> sync.has, file |-> file, ops |-> sync.ops,
              said |-> hello \o << <<"error", IF had THEN "Pull failed." ELSE "Clone failed.">> >>]
        ELSE IF ~HasManifest(w)
        THEN [rc |-> 1, has |-> TRUE, file |-> file, ops |-> sync.ops \o <<"cd">>,
              said |-> hello \o << <<"error", "No docker-compose file found.">> >>]
        ELSE IF ~(LogWritable /\ Built(w))
        THEN [rc |-> 1, has |-> TRUE, file |-> file, ops |-> sync.ops \o <<"cd", "build">>,
              said |-> hello \o << <<"error", "Compose failed.">> >>]
        ELSE [rc |-> IF BestEffort(UpdatePolicy(w)) THEN 0 ELSE 1, has |-> TRUE, file |-> file,
              ops |-> sync.ops \o <<"cd", "build", "policy">>,
              said |-> hello \o << <<"log", "Success: " \o f.repo_name>> >>]

\* The commands of one deploy_repo, tagged with the service.
Tagged(name, ops) == [k \in 1..Len(ops) |-> <<ops[k], name>>]

\* Every revision but the first two calling the deploy_repo that discovers a
\* container and writes its route.
CallDeployRepoStatic(rec, had, file, tls) ==
    IF Guarded(rev)
    THEN LET r == DeployRepo4(rec, had, file)
         IN  IF r.rc # 0
             THEN [r EXCEPT !.said = @ \o << <<"error", "Deployment failed for repo: " \o rec[1]
                                                       \o ". Proceeding to the next repo.">> >>]
             ELSE r
    ELSE DeployRepo(rec, had, file, tls)

\* deploy_repo "$repo" as main's loop calls it in the installed revision, and
\* what the loop says when it failed.
CallDeployRepo(rec, had, file, tls) ==
    LET r == CASE rev = "deploy" -> DeployRepo(rec, had, file, tls)
               [] rev = "labels" -> DeployRepo2(rec, had, file)
               [] OTHER -> DeployRepo4(rec, had, file)
    IN  IF r.rc # 0 /\ Guarded(rev)
        THEN [r EXCEPT !.said = @ \o << <<"error", "Deployment failed for repo: " \o rec[1]
                                                  \o ". Proceeding to the next repo.">> >>]
        ELSE r

\* LOG_FILE, given BASE_DIR.
LOG_FILE(r, base) ==
    IF r = "first" THEN "/var/log/namanvashistha_deploy.log" ELSE base \o "/deploy.log"

\* The summary line saying that everything went well, whatever the count.
SummaryNoCount(r, failed_repos, base) ==
    IF Guarded(r)
    THEN "Deployment completed successfully for all repositories."
    ELSE "Deployment completed successfully!"

\* The final summary line.
Summary(r, failed_repos, base) ==
    IF Guarded(r)
    THEN IF failed_repos > 0
         THEN "Deployment completed with " \o Decimal(failed_repos)
              \o " repository failures. Check logs for details."
         ELSE "Deployment completed successfully for all repositories."
    ELSE IF failed_repos > 0
         THEN "Completed with " \o Decimal(failed_repos) \o " failures. See " \o LOG_FILE(r, base)
         ELSE "Deployment completed successfully!"

\* ---------------------------------------------------------------- steps
\* A new invocation of the script, by some user.
Start(p) ==
    /\ proc[p].pc = "idle"
    /\ \A q \in Procs : q < p => proc[q].pc # "idle"
    /\ host.overlap \/ \A q \in Procs : ~Running(q)
    /\ \E e \in host.envs : proc' = [proc EXCEPT ![p] = Fresh(e)]
    /\ UNCHANGED <<rev, world, lockDir, checkout, caddyfile, docker, network, proxy, host, completed, served, posted>>

\* mkdir -p "$BASE_DIR" ...; touch "$LOG_FILE". The first and the hinted
\* revision exit 1 when either fails; deploy.sh and the labels revision go on.
Setup(p) ==
    /\ proc[p].pc = "setup"
    /\ IF Guarded(rev)
       THEN IF world.fs = "ok"
            THEN StepSaying(p, << <<"log", "Starting deployment script...">> >>) /\ UNCHANGED lockDir
            ELSE ExitWith(p, proc[p], 1, TRUE)
       ELSE Step(p) /\ UNCHANGED lockDir
    /\ UNCHANGED <<rev, world, checkout, caddyfile, docker, network, proxy, host, completed, served, posted>>

\* A lock whose maker is gone does not count: it is taken over.
LockRefusedUnlessStale(p) ==
    \/ lockDir[Dir(p)] # 0 /\ proc[lockDir[Dir(p)]].pc # "exited"
    \/ rev # "first" /\ world.fs = "nobase"

\* A mkdir that succeeds on an existing directory (mkdir -p).
LockNeverRefused(p) == FALSE

\* The lock directory cannot be made: it exists, or (but in the first
\* revision, whose lock is under /tmp) its parent, the base directory, does not.
LockRefused(p) == lockDir[Dir(p)] # 0 \/ (rev # "first" /\ world.fs = "nobase")

\* acquire_lock without its `exit 1`: the run goes on when the mkdir fails.
AcquireLockNoExit(p) ==
    /\ proc[p].pc = "lock"
    /\ IF LockRefused(p)
       THEN /\ proc' = [proc EXCEPT ![p].pc = AfterPc(rev, "lock"),
                                    ![p].sawLock = lockDir[Dir(p)] # 0]
            /\ UNCHANGED lockDir
       ELSE /\ lockDir' = [lockDir EXCEPT ![Dir(p)] = p]
            /\ proc' = [proc EXCEPT ![p].pc = AfterPc(rev, "lock"), ![p].made = TRUE]
    /\ UNCHANGED <<rev, world, checkout, caddyfile, docker, network, proxy, host, completed, served, posted>>

\* acquire_lock with the trap set before the mkdir: the exit of a refused
\* invocation removes the lock directory it found.
AcquireLockTrapFirst(p) ==
    /\ proc[p].pc = "lock"
    /\ IF LockRefused(p)
       THEN /\ proc' = [proc EXCEPT ![p] =
                          Gone(Report([@ EXCEPT !.sawLock = lockDir[Dir(p)] # 0, !.trap = TRUE],
                                      << <<"error", "Deployment already running (lock directory exists).">> >>),
                               1)]
            /\ lockDir' = [lockDir EXCEPT ![Dir(p)] = 0]
       ELSE /\ lockDir' = [lockDir EXCEPT ![Dir(p)] = p]
            /\ proc' = [proc EXCEPT ![p].pc = AfterPc(rev, "lock"), ![p].made = TRUE]
    /\ UNCHANGED <<rev, world, checkout, caddyfile, docker, network, proxy, host, completed, served, posted>>

\* acquire_lock with `mkdir -p`, which succeeds on a directory that exists.
AcquireLockMkdirP(p) ==
    /\ proc[p].pc = "lock"
    /\ lockDir' = [lockDir EXCEPT ![Dir(p)] = p]
    /\ proc' = [proc EXCEPT ![p].pc = AfterPc(rev, "lock"), ![p].made = TRUE]
    /\ UNCHANGED <<rev, world, checkout, caddyfile, docker, network, proxy, host, completed, served, posted>>

\* acquire_lock, the mkdir: error and exit 1 when it fails.
AcquireLock(p) ==
    /\ proc[p].pc = "lock"
    /\ IF LockRefused(p)
       THEN /\ proc' = [proc EXCEPT ![p] =
                          Gone(Report([@ EXCEPT !.sawLock = lockDir[Dir(p)] # 0],
                                      << <<"error", IF Guarded(rev)
                                            THEN "Another instance of the deployment script is already running (lock directory exists). Exiting."
                                            ELSE "Deployment already running (lock directory exists).">> >>),
                               1)]
            /\ UNCHANGED lockDir
       ELSE /\ lockDir' = [lockDir EXCEPT ![Dir(p)] = p]
            /\ proc' = [proc EXCEPT ![p].pc = AfterPc(rev, "lock"), ![p].made = TRUE]
    /\ UNCHANGED <<rev, world, checkout, caddyfile, docker, network, proxy, host, completed, served, posted>>

\* acquire_lock, the trap: trap 'rm -rf "$LOCK_FILE.dir"' EXIT
SetTrap(p) ==
    /\ proc[p].pc = "trap"
    /\ LET pr == Report([proc[p] EXCEPT !.trap = TRUE],
                        IF Guarded(rev) THEN << <<"log", "Acquired lock.">> >> ELSE <<>>)
       IN  proc' = [proc EXCEPT ![p] = [pr EXCEPT !.pc = AfterPc(rev, "trap")]]
    /\ UNCHANGED <<rev, world, lockDir, checkout, caddyfile, docker, network, proxy, host, completed, served, posted>>

\* install_docker. deploy.sh and the labels revision: return when runtime and
\* compose are there, else install and exit 1 when the runtime is still
\* missing. The first and the hinted revision: install when the runtime is
\* missing, exit 1 when the installer fails, then exit 1 when compose is missing.
InstallDocker(p) ==
    /\ proc[p].pc = "deps"
    /\ IF ~Guarded(rev)
       THEN IF docker.runtime /\ docker.compose
            THEN Step(p) /\ UNCHANGED <<docker, lockDir>>
            ELSE \E o \in host.installs :
                     /\ docker' = Installed(docker.runtime \/ o.runtime, docker.compose \/ o.compose)
                     /\ IF docker'.runtime
                        THEN /\ StepSaying(p, << <<"log", "Installing Docker...">> >>)
                             /\ UNCHANGED lockDir
                        ELSE ExitWith(p, Report(proc[p], << <<"log", "Installing Docker...">>,
                                                           <<"error", "Failed to install Docker.">> >>),
                                      1, TRUE)
       ELSE IF docker.runtime
            THEN /\ UNCHANGED docker
                 /\ IF docker.compose
                    THEN /\ StepSaying(p, << <<"log", "Docker is already installed.">> >>)
                         /\ UNCHANGED lockDir
                    ELSE ExitWith(p, Report(proc[p],
                                    << <<"log", "Docker is already installed.">>,
                                       <<"error", "Docker Compose not found. Please ensure Docker Compose plugin is installed.">> >>),
                                  1, TRUE)
            ELSE \E o \in host.installs :
                     /\ docker' = Installed(o.runtime, docker.compose \/ o.compose)
                     /\ IF ~o.runtime
                        THEN ExitWith(p, Report(proc[p],
                                        << <<"log", "Docker not found. Installing Docker...">>,
                                           <<"error", "Failed to install Docker.">> >>),
                                      1, TRUE)
                        ELSE IF ~docker'.compose
                        THEN ExitWith(p, Report(proc[p],
                                        << <<"log", "Docker not found. Installing Docker...">>,
                                           <<"log", "Docker installed successfully.">>,
                                           <<"error", "Docker Compose not found. Please ensure Docker Compose plugin is installed.">> >>),
                                      1, TRUE)
                        ELSE /\ StepSaying(p, << <<"log", "Docker not found. Installing Docker...">>,
                                                 <<"log", "Docker installed successfully.">> >>)
                             /\ UNCHANGED lockDir
    /\ UNCHANGED <<rev, world, checkout, caddyfile, network, proxy, host, completed, served, posted>>

\* The shared network: created when absent. deploy.sh and the labels revision
\* go on when the creation fails; create_network of the first and the hinted
\* revision exits 1.
EnsureNetwork(p) ==
    /\ proc[p].pc = "net"
    /\ IF network
       THEN /\ StepSaying(p, IF Guarded(rev)
                             THEN << <<"log", "Shared Docker network naman_shared_net already exists.">> >>
                             ELSE <<>>)
            /\ UNCHANGED <<network, lockDir>>
       ELSE \E ok \in BOOLEAN :
                IF ok
                THEN /\ network' = TRUE
                     /\ StepSaying(p, IF Guarded(rev)
                                      THEN << <<"log", "Creating shared Docker network: naman_shared_net...">> >>
                                      ELSE <<>>)
                     /\ UNCHANGED lockDir
                ELSE IF ~Guarded(rev)
                     THEN Step(p) /\ UNCHANGED <<network, lockDir>>
                     ELSE /\ ExitWith(p, Report(proc[p],
                                        << <<"log", "Creating shared Docker network: naman_shared_net...">>,
                                           <<"error", "Failed to create Docker network.">> >>),
                                      1, TRUE)
                          /\ UNCHANGED network
    /\ UNCHANGED <<rev, world, checkout, caddyfile, docker, proxy, host, completed, served, posted>>

\* Auto-detect TLS.
DetectTls(p) ==
    /\ proc[p].pc = "tls"
    /\ LET public_ip == PublicIp(world.lookup)
           domain_ip == DomainIp(rev, world.resolve)
           tls == EnableTls(public_ip, domain_ip)
           pr == Report([proc[p] EXCEPT !.public_ip = public_ip,
                                        !.domain_ip = domain_ip,
                                        !.ENABLE_TLS = tls],
                        IF rev # "hinted" THEN <<>>
                        ELSE << <<"log", "Configuring Caddy Reverse Proxy...">> >>
                             \o IF tls
                                THEN << <<"log", "Detected Public IP match.">> >>
                                ELSE << <<"log", "Domain does not resolve directly to this machine's public IP.">>,
                                        <<"log", "Assuming Cloudflare Tunnel / External Proxy.">> >>)
       IN  proc' = [proc EXCEPT ![p] = [pr EXCEPT !.pc = AfterPc(rev, "tls")]]
    /\ UNCHANGED <<rev, world, lockDir, checkout, caddyfile, docker, network, proxy, host, completed, served, posted>>

\* > "$CADDY_DIR/Caddyfile"
Truncate(p) ==
    /\ proc[p].pc = "trunc"
    /\ caddyfile' = [caddyfile EXCEPT ![Dir(p)] = <<>>]
    /\ Step(p)
    /\ UNCHANGED <<rev, world, lockDir, checkout, docker, network, proxy, host, completed, served, posted>>

\* setup_caddy of the hinted revision: the loop that writes every block.
Fill(p) ==
    /\ proc[p].pc = "fill"
    /\ caddyfile' = [caddyfile EXCEPT
                       ![Dir(p)] = @ \o Blocks4(Fleet(rev), proc[p].ENABLE_TLS)]
    /\ StepSaying(p, [k \in 1..Len(Fleet(rev)) |->
                        <<"log", "Bridging " \o ReadRepo4(Fleet(rev)[k]).container_name
                                 \o " to naman_shared_net...">>])
    /\ UNCHANGED <<rev, world, lockDir, checkout, docker, network, proxy, host, completed, served, posted>>

\* main's loop leaving at the first failed deploy_repo.
DeployStopAtFailure(p) ==
    /\ proc[p].pc = "loop"
    /\ LET rec == Fleet(rev)[proc[p].i]
           d == Dir(p)
           had == rec[1] \in checkout[d]
           r == CallDeployRepo(rec, had, caddyfile[d], proc[p].ENABLE_TLS)
           pr == Report(proc[p], r.said)
       IN  /\ checkout' = [checkout EXCEPT ![d] = IF r.has THEN @ \cup {rec[1]} ELSE @]
           /\ caddyfile' = [caddyfile EXCEPT ![d] = r.file]
           /\ proc' = [proc EXCEPT ![p] =
                 [pr EXCEPT
                    !.failed_repos = IF r.rc # 0 THEN @ + 1 ELSE @,
                    !.ops = @ \o Tagged(rec[1], r.ops),
                    !.i = @ + 1,
                    !.pc = IF proc[p].i = Len(Fleet(rev)) \/ r.rc # 0
                           THEN AfterPc(rev, "loop") ELSE "loop"]]
    /\ UNCHANGED <<rev, world, lockDir, docker, network, proxy, host, completed, served, posted>>

\* One round of main's loop: deploy_repo on the next record, counting a failure.
Deploy(p) ==
    /\ proc[p].pc = "loop"
    /\ LET rec == Fleet(rev)[proc[p].i]
           d == Dir(p)
           had == rec[1] \in checkout[d]
       IN  \E r \in {CallDeployRepo(rec, had, caddyfile[d], proc[p].ENABLE_TLS)} :
           /\ checkout' = [checkout EXCEPT ![d] = IF r.has THEN @ \cup {rec[1]} ELSE @]
           /\ caddyfile' = [caddyfile EXCEPT ![d] = r.file]
           /\ proc' = [proc EXCEPT ![p] =
                 [Report(proc[p], r.said) EXCEPT
                    !.failed_repos = IF r.rc # 0 THEN @ + 1 ELSE @,
                    !.ops = @ \o Tagged(rec[1], r.ops),
                    !.i = @ + 1,
                    !.pc = IF proc[p].i = Len(Fleet(rev)) THEN AfterPc(rev, "loop") ELSE "loop"]]
    /\ UNCHANGED <<rev, world, lockDir, docker, network, proxy, host, completed, served, posted>>

\* What the proxy start says before docker run, and when docker run failed.
CaddySays(r, old) ==
    CASE r = "hinted" -> (IF old # "none"
                          THEN << <<"log", "Removing existing Caddy container...">> >>
                          ELSE <<>>)
                         \o << <<"log", "Starting Caddy container...">> >>
      [] r = "labels" -> << <<"log", "Setting up Caddy Docker Proxy...">> >>
      [] OTHER -> <<>>

CaddyFailed(r) ==
    IF r = "hinted" THEN "Failed to start Caddy container." ELSE "Failed to start Caddy."

\* The proxy start tried again and again until it succeeds.
StartCaddyRetry(p) ==
    /\ proc[p].pc = "caddy"
    /\ \E ok \in BOOLEAN :
           IF ok /\ network /\ (LogWritable \/ rev = "hinted")
           THEN /\ proxy' = Dir(p)
                /\ proc' = [proc EXCEPT ![p].pc = AfterPc(rev, "caddy"),
                                         ![p].ops = Append(@, <<"proxy", "">>)]
                /\ UNCHANGED lockDir
           ELSE /\ proxy' = "none"
                /\ UNCHANGED <<proc, lockDir>>
    /\ UNCHANGED <<rev, world, checkout, caddyfile, docker, network, host, completed, served, posted>>

\* docker rm -f caddy_proxy; docker run ... , exit 1 when it fails. The proxy
\* cannot start on a network that does not exist; deploy.sh and the labels
\* revision redirect both commands to the log file.
StartCaddy(p) ==
    /\ proc[p].pc = "caddy"
    /\ \E ok \in BOOLEAN :
           IF ok /\ network /\ (LogWritable \/ rev = "hinted")
           THEN /\ proxy' = Dir(p)
                /\ LET pr == Report(proc[p],
                                    CaddySays(rev, proxy)
                                    \o IF rev = "labels"
                                       THEN << <<"log", "Caddy Docker Proxy is running.">> >>
                                       ELSE <<>>)
                   IN  proc' = [proc EXCEPT ![p] =
                                  [pr EXCEPT !.pc = AfterPc(rev, "caddy"),
                                             !.ops = Append(@, <<"proxy", "">>)]]
                /\ UNCHANGED lockDir
           ELSE /\ proxy' = IF LogWritable \/ rev = "hinted" THEN "none" ELSE proxy
                /\ ExitWith(p, Report(proc[p], CaddySays(rev, proxy)
                                               \o << <<"error", CaddyFailed(rev)>> >>),
                            1, TRUE)
    /\ UNCHANGED <<rev, world, checkout, caddyfile, docker, network, host, completed, served, posted>>

\* The summary line and the end of main: exit 0, or in the labels revision
\* the status of the last command, the log of the summary line.
Finish(p) ==
    /\ proc[p].pc = "summary"
    /\ LET line == Summary(rev, proc[p].failed_repos, Dir(p))
           pr == Report([proc[p] EXCEPT !.summary = line],
                        << <<"log", "--------------------------------------------------">>,
                           <<"log", line>> >>)
       IN  ExitWith(p, pr, IF rev = "labels" /\ ~LogWritable THEN 1 ELSE 0, TRUE)
    /\ completed' = [completed EXCEPT ![Dir(p)] = Append(@, caddyfile[Dir(p)])]
    /\ UNCHANGED <<rev, world, checkout, caddyfile, docker, network, proxy, host, served, posted>>

\* SIGTERM, SIGINT or SIGHUP: bash runs the EXIT trap, if set, and ends.
Term(p) ==
    /\ Running(p)
    /\ ExitWith(p, proc[p], 143, TRUE)
    /\ UNCHANGED <<rev, world, checkout, caddyfile, docker, network, proxy, host, completed, served, posted>>

\* SIGKILL: the process ends at once, no trap runs.
Kill(p) ==
    /\ Running(p)
    /\ ExitWith(p, proc[p], 137, FALSE)
    /\ UNCHANGED <<rev, world, checkout, caddyfile, docker, network, proxy, host, completed, served, posted>>

\* The shell runs the next command of p's main.
Advance(p) ==
    \/ Setup(p)
    \/ AcquireLock(p)
    \/ SetTrap(p)
    \/ InstallDocker(p)
    \/ EnsureNetwork(p)
    \/ DetectTls(p)
    \/ Truncate(p)
    \/ Fill(p)
    \/ Deploy(p)
    \/ StartCaddy(p)
    \/ Finish(p)

\* Every command the script runs returns: a started process is not held up
\* forever.
Fairness == \A p \in Procs : WF_vars(Advance(p))

Next ==
    \E p \in Procs :
        \/ Start(p)
        \/ Setup(p)
        \/ AcquireLock(p)
        \/ SetTrap(p)
        \/ InstallDocker(p)
        \/ EnsureNetwork(p)
        \/ DetectTls(p)
        \/ Truncate(p)
        \/ Fill(p)
        \/ Deploy(p)
        \/ StartCaddy(p)
        \/ Finish(p)
        \/ Term(p)
        \/ Kill(p)

\* ------------------------------------------------------- specifications
\* What a service's remote and tree can be like.
Healthy(n) ==
    [remote |-> "main", stash |-> TRUE, manifest |-> TRUE, build |-> TRUE,
     policy |-> TRUE, join |-> TRUE,
     group |-> GroupExact(DeclaredPort(n))]
Trunk(n) == [Healthy(n) EXCEPT !.remote = "trunk"]
Down(n) == [Healthy(n) EXCEPT !.remote = "down"]
NoManifest(n) == [Healthy(n) EXCEPT !.manifest = FALSE]
NoBuild(n) == [Healthy(n) EXCEPT !.build = FALSE]
NoPort(n) == [Healthy(n) EXCEPT !.group = GroupNone]
Master(n) == [Healthy(n) EXCEPT !.remote = "master"]
MasterNoStash(n) == [Master(n) EXCEPT !.stash = FALSE]
\* docker update --restart fails on the service's containers; docker network
\* connect fails on its container.
NoPolicy(n) == [Healthy(n) EXCEPT !.policy = FALSE]
NoJoin(n) == [Healthy(n) EXCEPT !.join = FALSE]

\* A fresh host.
BaseInit ==
    /\ rev \in Revisions
    /\ lockDir = [d \in Dirs |-> 0]
    /\ checkout = [d \in Dirs |-> {}]
    /\ caddyfile = [d \in Dirs |-> <<>>]
    /\ docker = Installed(FALSE, FALSE)
    /\ network = FALSE
    /\ proxy = "none"
    /\ proc = [p \in Procs |-> Idle]
    /\ completed = [d \in Dirs |-> <<>>]
    /\ served = <<>>
    /\ posted = <<>>

\* Any user invokes the script at any time; every service is healthy.
Init ==
    /\ BaseInit
    /\ host = [envs |-> Envs, overlap |-> TRUE, installs |-> InstallsAllOrNothing]
    /\ world = [svc |-> [n \in Names |-> Healthy(n)],
                lookup |-> [rc |-> 0, out |-> IpA],
                resolve |-> <<IpA>>,
                fs |-> "ok"]

Spec == Init /\ [][Next]_vars

\* One user, one run after the other; each service is healthy or fails in one way.
InitFleet ==
    /\ BaseInit
    /\ host = [envs |-> {[HOME |-> "/home/alice", SUDO_USER |-> ""]}, overlap |-> FALSE,
               installs |-> InstallsAllOrNothing]
    /\ world \in [svc : [Names -> UNION {{Healthy(n), Trunk(n), Down(n), NoManifest(n), NoBuild(n), NoPort(n)} : n \in Names}],
                  lookup : {[rc |-> 0, out |-> IpA]},
                  resolve : {<<IpA>>},
                  fs : {"ok"}]
    /\ \A n \in Names : world.svc[n].group \in Groups(n)

SpecFleet == InitFleet /\ [][Next]_vars


\* One user, one run after the other; every service syncs and builds, and
\* its container group is any of Groups.
InitDiscovery ==
    /\ BaseInit
    /\ host = [envs |-> {[HOME |-> "/home/alice", SUDO_USER |-> ""]}, overlap |-> FALSE,
               installs |-> InstallsAllOrNothing]
    /\ world \in [svc : [Names -> UNION {{[Healthy(n) EXCEPT !.group = g] : g \in Groups(n)} : n \in Names}],
                  lookup : {[rc |-> 0, out |-> IpA]},
                  resolve : {<<IpA>>},
                  fs : {"ok"}]
    /\ \A n \in Names : world.svc[n].group \in Groups(n)

SpecDiscovery == InitDiscovery /\ [][Next]_vars

\* One user, one run after the other; healthy services; any reply of the
\* public-IP lookup and of the resolver.
InitTls ==
    /\ BaseInit
    /\ host = [envs |-> {[HOME |-> "/home/alice", SUDO_USER |-> ""]}, overlap |-> FALSE,
               installs |-> InstallsAllOrNothing]
    /\ world \in [svc : {[n \in Names |-> Healthy(n)]},
                  lookup : Lookups,
                  resolve : Resolutions,
                  fs : {"ok"}]

SpecTls == InitTls /\ [][Next]_vars

\* A fresh host with any revision of the script installed.
BaseInitAll ==
    /\ rev \in AllRevisions
    /\ lockDir = [d \in Dirs |-> 0]
    /\ checkout = [d \in Dirs |-> {}]
    /\ caddyfile = [d \in Dirs |-> <<>>]
    /\ docker = Installed(FALSE, FALSE)
    /\ network = FALSE
    /\ proxy = "none"
    /\ proc = [p \in Procs |-> Idle]
    /\ completed = [d \in Dirs |-> <<>>]
    /\ served = <<>>
    /\ posted = <<>>

\* One user, one run after the other, an installer that installs all or nothing.
OneUser ==
    [envs |-> {[HOME |-> "/home/alice", SUDO_USER |-> ""]}, overlap |-> FALSE,
     installs |-> InstallsAllOrNothing]

\* Every revision; each service is healthy, unreachable, fails to build or
\* exposes another port than the declared one.
InitRevs ==
    /\ BaseInitAll
    /\ host = OneUser
    /\ world \in [svc : [Names -> UNION {{Healthy(n), Down(n), NoBuild(n), NoPort(n)} : n \in Names}],
                  lookup : {[rc |-> 0, out |-> IpA]},
                  resolve : {<<IpA>>},
                  fs : {"ok"}]
    /\ \A n \in Names : world.svc[n].group \in Groups(n)

SpecRevs == InitRevs /\ [][Next]_vars

\* Every revision; each service's remote has one branch or is unreachable,
\* and git stash may fail in its checkout.
InitSync ==
    /\ BaseInitAll
    /\ host = OneUser
    /\ world \in [svc : [Names -> UNION {{Healthy(n), Master(n), Trunk(n), Down(n), MasterNoStash(n)}
                                         : n \in Names}],
                  lookup : {[rc |-> 0, out |-> IpA]},
                  resolve : {<<IpA>>},
                  fs : {"ok"}]
    /\ \A n \in Names : world.svc[n].group \in Groups(n)

SpecSync == InitSync /\ [][Next]_vars

\* Every revision; healthy services; the base directory and the log file can
\* be made or not.
InitSetup ==
    /\ BaseInitAll
    /\ host = OneUser
    /\ world \in [svc : {[n \in Names |-> Healthy(n)]},
                  lookup : {[rc |-> 0, out |-> IpA]},
                  resolve : {<<IpA>>},
                  fs : FileSystems]

SpecSetup == InitSetup /\ [][Next]_vars

\* Every revision; healthy services; an installer that may leave the runtime
\* without its compose subcommand.
InitDeps ==
    /\ BaseInitAll
    /\ host = [OneUser EXCEPT !.installs = InstallsAny]
    /\ world \in [svc : {[n \in Names |-> Healthy(n)]},
                  lookup : {[rc |-> 0, out |-> IpA]},
                  resolve : {<<IpA>>},
                  fs : {"ok"}]

SpecDeps == InitDeps /\ [][Next]_vars

\* Every revision; each service is healthy, or the update of its containers'
\* restart policy fails, or its container cannot be connected to the network.
InitBestEffort ==
    /\ BaseInitAll
    /\ host = OneUser
    /\ world \in [svc : [Names -> UNION {{Healthy(n), NoPolicy(n), NoJoin(n)} : n \in Names}],
                  lookup : {[rc |-> 0, out |-> IpA]},
                  resolve : {<<IpA>>},
                  fs : {"ok"}]
    /\ \A n \in Names : world.svc[n].group \in Groups(n)

SpecBestEffort == InitBestEffort /\ [][Next]_vars

\* The static-file revisions; the first service of the list is healthy,
\* unreachable, on a branch that cannot be pulled, or fails to build, the
\* others are healthy; the public-IP lookup answers or times out.
InitLive ==
    /\ BaseInit
    /\ host = OneUser
    /\ \E first \in {Healthy(REPOS[1][1]), Down(REPOS[1][1]), Trunk(REPOS[1][1]), NoBuild(REPOS[1][1])},
          lookup \in {[rc |-> 0, out |-> IpA], [rc |-> 28, out |-> ""]} :
           world = [svc |-> [n \in Names |-> IF n = REPOS[1][1] THEN first ELSE Healthy(n)],
                    lookup |-> lookup,
                    resolve |-> <<IpA>>,
                    fs |-> "ok"]

SpecLive == InitLive /\ [][Next]_vars /\ Fairness

\* ------------------------------------------------------------ OAuth relay
\* functions/oauth.js: a worker with one handler, fetch(request, env, ctx).
MaxRequests == 2

\* env.GITHUB_CLIENT_ID and env.GITHUB_CLIENT_SECRET.
GITHUB_CLIENT_ID == "Iv1.client"
GITHUB_CLIENT_SECRET == "secret"

\* The values crypto.randomUUID() may return, which are also the values a
\* caller may send as state.
Uuids == {"u1", "u2"}

\* Query strings, as the lists of pairs URLSearchParams makes of them.
Searches ==
    {<<>>}
    \cup {<< <<"provider", v>> >> : v \in {"github", "gitlab"}}
    \cup {<< <<"code", c>> >> : c \in {"", "c1"}}
    \cup {<< <<"state", u>> >> : u \in Uuids}
    \cup {<< <<"code", c>>, <<"state", u>> >> : c \in {"", "c1"}, u \in Uuids}

\* The requests: new URL(request.url) gives the pathname and the search.
Pathnames == {"/api/auth", "/api/callback", "/api/callback/", "/"}
Requests == [pathname : Pathnames, search : Searches]

\* What https://github.com/login/oauth/access_token may answer: a JSON object
\* with a token, one with an error, an empty one, or a body that is no JSON
\* (parses = FALSE; a failed connection ends the handler the same way).
Replies ==
    {[parses |-> TRUE, data |-> << <<"access_token", t>>, <<"token_type", "bearer">> >>]
        : t \in {"gho_1", "gho_2"}}
    \cup {[parses |-> TRUE, data |-> << <<"error", "bad_verification_code">> >>],
          [parses |-> TRUE, data |-> <<>>],
          [parses |-> FALSE, data |-> <<>>]}

\* params.get(key) and a property read of a parsed object: the first value
\* under the key; found = FALSE stands for null or undefined.
Get(pairs, key) ==
    LET at == {k \in 1..Len(pairs) : pairs[k][1] = key}
    IN  IF at = {} THEN [found |-> FALSE, value |-> ""]
        ELSE [found |-> TRUE, value |-> pairs[CHOOSE k \in at : \A j \in at : k <= j][2]]

\* The truth value JavaScript gives a string or null: !code is Falsy(code).
Falsy(v) == ~v.found \/ v.value = ""

RECURSIVE Members(_)
\* The members of an object as JSON.stringify writes them.
Members(pairs) ==
    IF pairs = <<>> THEN ""
    ELSE "\"" \o Head(pairs)[1] \o "\":\"" \o Head(pairs)[2] \o "\""
         \o (IF Len(pairs) > 1 THEN "," ELSE "") \o Members(Tail(pairs))

\* JSON.stringify of an object of strings.
Stringify(pairs) == "{" \o Members(pairs) \o "}"

\* new Response(body, {status, headers}) and Response.redirect(url, 302).
Response(status, type, body) == [status |-> status, type |-> type, body |-> body]

\* The handler ended by an uncaught exception: the runtime answers for it.
Thrown == Response(500, "exception", "")

\* The page of lines 49-75: what it posts to its opener. A token that is
\* undefined is left out by JSON.stringify.
Page(token) ==
    "authorization:github:success:"
    \o Stringify((IF token.found THEN << <<"token", token.value>> >> ELSE <<>>)
                 \o << <<"provider", "github">> >>)

\* /api/auth: the redirect to the authorization page, for github only.
\* [response, posts: the bodies posted to the token endpoint].
AuthRoute(search, uuid) ==
    LET provider == Get(search, "provider")
    IN  IF ~(provider.found /\ provider.value = "github")
        THEN [response |-> Response(400, "text/plain", "Unknown provider"), posts |-> <<>>]
        ELSE [response |-> Response(302, "redirect",
                                    "https://github.com/login/oauth/authorize?client_id="
                                    \o GITHUB_CLIENT_ID \o "&scope=public_repo,user:email&state="
                                    \o uuid),
              posts |-> <<>>]

\* /api/callback answering a request without code as any other.
CallbackRouteNoCodeTest(search, reply) ==
    LET code == Get(search, "code")
        body == [client_id |-> GITHUB_CLIENT_ID, client_secret |-> GITHUB_CLIENT_SECRET,
                 code |-> code]
    IN  IF ~reply.parses THEN [response |-> Thrown, posts |-> <<body>>]
        ELSE IF ~Falsy(Get(reply.data, "error"))
        THEN [response |-> Response(400, "application/json", Stringify(reply.data)),
              posts |-> <<body>>]
        ELSE [response |-> Response(200, "text/html", Page(Get(reply.data, "access_token"))),
              posts |-> <<body>>]

\* /api/callback accepting only a state that /api/auth has handed out.
CallbackRouteCheckingState(search, reply) ==
    LET code == Get(search, "code")
        state == Get(search, "state")
        body == [client_id |-> GITHUB_CLIENT_ID, client_secret |-> GITHUB_CLIENT_SECRET,
                 code |-> code]
        handed == \E k \in 1..Len(served) :
                      /\ served[k].response.status = 302
                      /\ state.found
                      /\ served[k].response.body =
                             "https://github.com/login/oauth/authorize?client_id="
                             \o GITHUB_CLIENT_ID \o "&scope=public_repo,user:email&state="
                             \o state.value
    IN  IF Falsy(code) \/ ~handed
        THEN [response |-> Response(400, "text/plain", "Missing code"), posts |-> <<>>]
        ELSE IF ~reply.parses THEN [response |-> Thrown, posts |-> <<body>>]
        ELSE IF ~Falsy(Get(reply.data, "error"))
        THEN [response |-> Response(400, "application/json", Stringify(reply.data)),
              posts |-> <<body>>]
        ELSE [response |-> Response(200, "text/html", Page(Get(reply.data, "access_token"))),
              posts |-> <<body>>]

\* /api/callback: 400 without code; else the code is posted to the token
\* endpoint, whose reply is parsed (an exception when it is no JSON), and
\* answered with 400 and the reply when it has an error, with the page else.
CallbackRoute(search, reply) ==
    LET code == Get(search, "code")
        body == [client_id |-> GITHUB_CLIENT_ID, client_secret |-> GITHUB_CLIENT_SECRET,
                 code |-> code]
    IN  IF Falsy(code)
        THEN [response |-> Response(400, "text/plain", "Missing code"), posts |-> <<>>]
        ELSE IF ~reply.parses THEN [response |-> Thrown, posts |-> <<body>>]
        ELSE IF ~Falsy(Get(reply.data, "error"))
        THEN [response |-> Response(400, "application/json", Stringify(reply.data)),
              posts |-> <<body>>]
        ELSE [response |-> Response(200, "text/html", Page(Get(reply.data, "access_token"))),
              posts |-> <<body>>]

\* Every other pathname.
NotFoundRoute == [response |-> Response(404, "text/plain", "Not found"), posts |-> <<>>]

\* The relay answers one request: uuid is what crypto.randomUUID() returns
\* and reply what the token endpoint answers, should the handler ask. The
\* record kept is the request, the reply when one was asked for, the response.
Answer(request, r, reply) ==
    /\ Len(served) < MaxRequests
    /\ served' = Append(served, [request |-> request,
                                 reply |-> IF r.posts = <<>> THEN <<>> ELSE <<reply>>,
                                 response |-> r.response])
    /\ posted' = posted \o r.posts
    /\ UNCHANGED <<rev, world, lockDir, checkout, caddyfile, docker, network, proxy, proc,
                   host, completed>>

\* fetch, url.pathname === "/api/auth"
Auth ==
    \E request \in Requests : \E uuid \in Uuids :
        /\ request.pathname = "/api/auth"
        /\ Answer(request, AuthRoute(request.search, uuid), [parses |-> FALSE, data |-> <<>>])

\* fetch, url.pathname === "/api/callback"
Callback ==
    \E request \in Requests : \E reply \in Replies :
        /\ request.pathname = "/api/callback"
        /\ Answer(request, CallbackRoute(request.search, reply), reply)

\* fetch, any other pathname
NotFound ==
    \E request \in Requests :
        /\ request.pathname \notin {"/api/auth", "/api/callback"}
        /\ Answer(request, NotFoundRoute, [parses |-> FALSE, data |-> <<>>])

RelayNext == Auth \/ Callback \/ NotFound

\* The relay alone: the deploy script is not run.
InitRelay == Init /\ rev = "deploy"

SpecRelay == InitRelay /\ [][RelayNext]_vars

\* ----------------------------------------------------------------- claims
\* A run is active: past acquire_lock and not yet exited.
Active(p) == Running(p) /\ proc[p].made

\* C1 (as stated): on one host at most one run is active at any time,
\* whichever user or sudo-origin user starts each invocation.
C1_OneActiveRunPerHost == Cardinality({p \in Procs : Active(p)}) <= 1

\* C2: an invocation that finds the lock taken exits with code 1 at
\* acquire_lock, without waiting or retrying, having run no git or build
\* command on any checkout.
C2_LockedOutFailsFast ==
    \A p \in Procs :
        proc[p].sawLock =>
            /\ proc[p].pc = "exited"
            /\ proc[p].rc = 1
            /\ proc[p].ops = <<>>
            /\ ~proc[p].made

\* An invocation was turned away while the holder of its lock was running.
C2_Witness ==
    \E p, q \in Procs :
        /\ proc[p].sawLock /\ proc[p].pc = "exited"
        /\ Active(q) /\ Dir(q) = Dir(p) /\ lockDir[Dir(p)] = q
        /\ proc[q].ops # <<>>

\* C3 (as stated): once a run that acquired the lock has exited, by any path,
\* the lock marker it created is gone.
C3_ReleasedOnEveryExit ==
    \A p \in Procs :
        proc[p].pc = "exited" /\ proc[p].made => lockDir[Dir(p)] # p

\* C3 (amended): once a run that acquired the lock and registered its EXIT
\* trap has exited by completion, by a fatal exit or by a signal bash handles
\* (every exit but SIGKILL), the lock marker it created is gone.
C3_ReleasedUnlessKilled ==
    \A p \in Procs :
        proc[p].pc = "exited" /\ proc[p].made /\ proc[p].trap /\ proc[p].rc # 137
            => lockDir[Dir(p)] # p

\* A lock holder left by a fatal exit, another by SIGTERM, and their
\* markers are gone.
C3_Witness ==
    \E p, q \in Procs :
        /\ proc[p].pc = "exited" /\ proc[p].made /\ proc[p].trap /\ proc[p].rc = 1
        /\ proc[q].pc = "exited" /\ proc[q].made /\ proc[q].trap /\ proc[q].rc = 143
        /\ lockDir[Dir(p)] = 0 /\ lockDir[Dir(q)] = 0

\* The commands a running invocation has run so far.
Ran(p, op, n) == \E k \in 1..Len(proc[p].ops) : proc[p].ops[k] = <<op, n>>

\* The per-service loop of deploy.sh is over and the process is still there.
LoopDone(p) == rev = "deploy" /\ proc[p].pc \in {"caddy", "summary"}

\* The Caddyfile of p's base directory has a block for service n.
HasBlock(p, n) ==
    \E k \in 1..Len(caddyfile[Dir(p)]) : caddyfile[Dir(p)][k].name = n

\* What the outside made of service n in p's run: its sync failed (the clone
\* of an unreachable remote, or both pulls), its tree has no compose file,
\* its build failed, none of its containers exposes the declared port.
SyncFailed(p, n) ==
    \/ Ran(p, "clone", n) /\ world.svc[n].remote = "down"
    \/ Ran(p, "stash", n) /\ world.svc[n].remote \notin {"main", "master"}

ManifestMissing(p, n) == ~SyncFailed(p, n) /\ ~world.svc[n].manifest

BuildFailed(p, n) == ~SyncFailed(p, n) /\ world.svc[n].manifest /\ ~world.svc[n].build

Exposes(c, port) == \E k \in 1..Len(c.ports) : c.ports[k] = port

DiscoveryFailed(p, n) ==
    /\ ~SyncFailed(p, n) /\ world.svc[n].manifest /\ world.svc[n].build
    /\ \A k \in 1..Len(world.svc[n].group) : ~Exposes(world.svc[n].group[k], DeclaredPort(n))

Deployed(p, n) ==
    ~(SyncFailed(p, n) \/ ManifestMissing(p, n) \/ BuildFailed(p, n) \/ DiscoveryFailed(p, n))

\* C4: in deploy.sh, when the sync, manifest check or build of some service
\* fails, every service of the fleet is still attempted in the same run, every
\* service with nothing wrong is synced, built and routed, and the loop hands
\* over to the proxy start: a step of the loop leads to the loop, to the proxy
\* start, or to the end of the process by a signal.
C4_FailureIsolated ==
    /\ [](\A p \in Procs :
            LoopDone(p) =>
                \A n \in Names :
                    /\ Ran(p, "clone", n) \/ Ran(p, "stash", n)
                    /\ Deployed(p, n) =>
                           Ran(p, "build", n) /\ Ran(p, "route", n) /\ HasBlock(p, n))
    /\ [][\A p \in Procs :
            rev = "deploy" /\ proc[p].pc = "loop" =>
                \/ proc'[p].pc \in {"loop", "caddy"}
                \/ proc'[p].pc = "exited" /\ proc'[p].rc \in {137, 143}]_vars

\* The first service failed (sync, manifest or build), a later one is routed.
C4_Witness ==
    \E p \in Procs : \E a, b \in Names :
        /\ LoopDone(p) /\ proc[p].pc = "caddy"
        /\ a = Fleet(rev)[1][1] /\ b # a
        /\ SyncFailed(p, a) \/ ManifestMissing(p, a) \/ BuildFailed(p, a)
        /\ Deployed(p, b) /\ HasBlock(p, b) /\ ~HasBlock(p, a)

\* C5 (as stated): at the end of a run the failure counter is the number of
\* services that hit a sync failure, a missing manifest, a build failure or a
\* discovery failure.
C5_CountsEveryRecoverable ==
    \A p \in Procs :
        rev = "deploy" /\ proc[p].pc = "summary" =>
            proc[p].failed_repos =
                Cardinality({n \in Names : ~Deployed(p, n)})

\* C5 (amended): at the end of a run of deploy.sh the failure counter is the
\* number of services whose sync, manifest check or build failed; a service
\* whose declared port was not found is not counted.
C5_CountsSyncManifestBuild ==
    \A p \in Procs :
        rev = "deploy" /\ proc[p].pc = "summary" =>
            proc[p].failed_repos =
                Cardinality({n \in Names :
                    SyncFailed(p, n) \/ ManifestMissing(p, n) \/ BuildFailed(p, n)})

\* A run ends with one counted failure and one uncounted discovery failure.
C5_Witness ==
    \E p \in Procs : \E a, b \in Names :
        /\ rev = "deploy" /\ proc[p].pc = "summary"
        /\ DiscoveryFailed(p, a)
        /\ SyncFailed(p, b) \/ ManifestMissing(p, b) \/ BuildFailed(p, b)
        /\ proc[p].failed_repos = 1

\* C6 (as stated): after a completed run of a static-file revision the
\* routing file has a block for a service exactly when that service was
\* synced, built and discovered in that run.
C6_BlockIffDeployed ==
    \A p \in Procs :
        proc[p].pc = "summary" =>
            \A n \in Names :
                HasBlock(p, n) <=>
                    /\ Ran(p, "build", n)
                    /\ Deployed(p, n)

\* C7 (as stated): after a completed run of deploy.sh the routing file has
\* no block for a service none of whose containers exposes its declared port.
C7_NoBlockWithoutPort ==
    \A p \in Procs :
        rev = "deploy" /\ proc[p].pc = "summary" =>
            \A n \in Names : DiscoveryFailed(p, n) => ~HasBlock(p, n)

\* No two blocks of a routing file are for the same service.
NoDuplicate(file) ==
    \A j, k \in 1..Len(file) : file[j].name = file[k].name => j = k

\* C8 (as stated): two completed runs of deploy.sh in succession, the
\* outside answering the same, leave the same routing file, and no routing
\* file has two blocks for one service.
C8_Idempotent ==
    rev = "deploy" =>
        \A d \in Dirs :
            /\ \A k \in 1..Len(completed[d]) : NoDuplicate(completed[d][k])
            /\ \A k \in 1..(Len(completed[d]) - 1) : completed[d][k] = completed[d][k + 1]

\* C9 (as stated): the discovery returns a container only if it exposes
\* exactly the declared port, returns the first such container in the order
\* of enumeration, and returns none when no container exposes the port.
C9_DiscoversExactPort ==
    \A p \in Procs : \A n \in Names :
        Ran(p, "discover", n) =>
            LET group == world.svc[n].group
                port == DeclaredPort(n)
                exact == {k \in 1..Len(group) : Exposes(group[k], port)}
                found == Discover(group, port)
            IN  IF exact = {}
                THEN found = ""
                ELSE found = group[CHOOSE k \in exact : \A j \in exact : k <= j].name

\* The public-IP lookup and the resolution of the probe domain succeeded.
LookupSucceeded == world.lookup.rc = 0 /\ world.lookup.out # ""

ResolveSucceeded == world.resolve # <<>>

\* C10 (as stated): the mode is direct exactly when the public-IP lookup
\* succeeded, the resolution of the probe domain succeeded and the two
\* addresses are equal; in every other case it is passthrough.
C10_DirectIffBothEqual ==
    \A p \in Procs :
        proc[p].pc \in {"trunc", "fill", "loop", "caddy", "summary"} =>
            (proc[p].ENABLE_TLS <=>
                /\ LookupSucceeded
                /\ ResolveSucceeded
                /\ world.lookup.out = DomainIp(rev, world.resolve))

\* C11 (as stated): every call of error(), fatal or per-service, has
\* appended a line with the ERROR marker to the log file.
C11_ErrorsReachLog ==
    \A p \in Procs : Len(ErrorLines(proc[p].log)) = proc[p].errors

\* C12 (as stated): whenever a run has cloned service n, in any record
\* format, git clone was given the source URL of n's record, and the checkout
\* of n exists when the remote is reachable.
C12_ClonesFromSourceUrl ==
    \A p \in Procs : \A n \in Names :
        Ran(p, "clone", n) =>
            /\ Ran(p, SourceUrl(n), n)
            /\ world.svc[n].remote # "down" => n \in checkout[Dir(p)]

\* In p's run, command a on service n came before command b on it.
Before(p, a, b, n) ==
    \E j, k \in 1..Len(proc[p].ops) :
        j < k /\ proc[p].ops[j] = <<a, n>> /\ proc[p].ops[k] = <<b, n>>

\* The clone of n in p's run left no checkout.
CloneFailed(p, n) == Ran(p, "clone", n) /\ n \notin checkout[Dir(p)]

\* Neither branch of n's remote could be pulled in p's run.
BothPullsFailed(p, n) == Ran(p, "stash", n) /\ world.svc[n].remote \notin {"main", "master"}

C14_NetworkBeforeServices ==
    \A p \in Procs :
        (\/ proc[p].pc = "loop"
         \/ \E n \in Names : Ran(p, "clone", n) \/ Ran(p, "stash", n))
            => network

\* C15 (as stated): when the base directory or the log file cannot be made,
\* no run gets past acquire_lock's mkdir: none acquires the lock, installs
\* the dependencies or runs a command on a service, and a run that has exited
\* did so with a non-zero code.
C15_NoSetupNoRun ==
    world.fs # "ok" =>
        /\ docker = Installed(FALSE, FALSE)
        /\ \A p \in Procs :
            /\ proc[p].pc \in {"idle", "setup", "lock", "exited"}
            /\ ~proc[p].made
            /\ proc[p].ops = <<>>
            /\ proc[p].pc = "exited" => proc[p].rc # 0

\* C16 (as stated): a run that is past install_docker has the container
\* runtime and its compose subcommand; with either missing the run has exited
\* and has run no command on a service.
C16_DepsReadyAfterInstall ==
    \A p \in Procs :
        proc[p].pc \in {"net", "tls", "trunc", "fill", "loop", "caddy", "summary"}
            => docker.runtime /\ docker.compose

ReportsNumber(line, k, log_file) ==
    IF k = 0
    THEN line \in {"Deployment completed successfully!",
                   "Deployment completed successfully for all repositories."}
    ELSE line \in {"Completed with " \o Decimal(k) \o " failures. See " \o log_file,
                   "Deployment completed with " \o Decimal(k)
                       \o " repository failures. Check logs for details."}

\* The services whose sync, manifest check or build failed in p's run.
CountedServices(p) ==
    {n \in Names :
        \/ CloneFailed(p, n)
        \/ BothPullsFailed(p, n)
        \/ Ran(p, "cd", n) /\ ~world.svc[n].manifest
        \/ Ran(p, "build", n) /\ ~(docker.compose /\ world.svc[n].build)}

\* The services that failed in p's run: those, and the services that were
\* built and for which the discovery found no container to route to.
FailedServices(p) ==
    CountedServices(p) \cup {n \in Names : Ran(p, "discover", n) /\ ~Ran(p, "route", n)}

\* p's run, everything before the summary having succeeded, ends here and
\* not by a signal.
Completes(p) ==
    /\ proc[p].pc = "summary"
    /\ proc'[p].pc = "exited"
    /\ proc'[p].rc \notin {137, 143}

\* C18 (as stated): a run in which the lock, the dependencies, the network
\* and the proxy start all succeeded exits with code 0 whatever the number of
\* services that failed, and its final summary line reports that number.
C18_ExitZeroReportingFailures ==
    [][\A p \in Procs :
          Completes(p) =>
              /\ proc'[p].rc = 0
              /\ ReportsNumber(proc'[p].summary, Cardinality(FailedServices(p)),
                               LOG_FILE(rev, Dir(p)))]_vars

\* C18 (amended): such a run exits with code 0 and its final summary line
\* reports the number of services whose sync, manifest check or build failed;
\* a service whose declared port was not found is not in that number.
C18_ExitZeroReportingCounted ==
    [][\A p \in Procs :
          Completes(p) =>
              /\ proc'[p].rc = 0
              /\ ReportsNumber(proc'[p].summary, Cardinality(CountedServices(p)),
                               LOG_FILE(rev, Dir(p)))]_vars

\* A run has ended with code 0 and a summary line that reports one failure
\* or more.
C18_Witness ==
    \E p \in Procs : \E k \in 1..NumRepos :
        /\ proc[p].pc = "exited" /\ proc[p].rc = 0 /\ proc[p].trap
        /\ ReportsNumber(proc[p].summary, k, LOG_FILE(rev, Dir(p)))

\* C19: the phases of a run come in this order: the lock is acquired before
\* the dependency install, the install before the network is ensured, the
\* network before any service is synced; per service the sync precedes the
\* build, the build the discovery, the discovery the route publication; the
\* proxy is started only after every service of the fleet was processed.
C19_PhasesInOrder ==
    \A p \in Procs :
        /\ proc[p].pc \in {"deps", "net", "tls", "trunc", "fill", "loop", "caddy", "summary"} =>
               proc[p].made
        /\ proc[p].pc \in {"net", "tls", "trunc", "fill", "loop", "caddy", "summary"} =>
               docker.runtime
        /\ proc[p].ops # <<>> =>
               proc[p].pc \notin {"setup", "lock", "trap", "deps", "net"}
        /\ \A n \in Names :
               /\ Ran(p, "build", n) =>
                      Before(p, "clone", "build", n) \/ Before(p, "stash", "build", n)
               /\ Ran(p, "discover", n) => Before(p, "build", "discover", n)
               /\ Ran(p, "route", n) => Before(p, "discover", "route", n)
        /\ \A k \in 1..Len(proc[p].ops) :
               proc[p].ops[k][1] = "proxy" =>
                   \A n \in Names : \E j \in 1..(k - 1) : proc[p].ops[j][2] = n

\* Service n was synced in p's run and its checkout has no compose file.
NoComposeFile(p, n) == Ran(p, "cd", n) /\ ~world.svc[n].manifest

\* C20: a service whose checkout has neither docker-compose.yml nor
\* docker-compose.yaml is not built or started in that run and gets no route
\* entry; the call of deploy_repo that finds the file missing adds exactly one
\* to the failure counter and the run goes on with the next service or the
\* proxy start.
C20_NoManifestSkipped ==
    /\ [](\A p \in Procs : \A n \in Names :
            NoComposeFile(p, n) =>
                /\ ~Ran(p, "build", n) /\ ~Ran(p, "policy", n)
                /\ ~Ran(p, "route", n) /\ ~HasBlock(p, n)
                /\ proc[p].failed_repos >= 1)
    /\ [][\A p \in Procs :
            /\ proc[p].pc = "loop"
            /\ ~world.svc[Fleet(rev)[proc[p].i][1]].manifest
            /\ \E k \in 1..Len(proc'[p].ops) :
                   proc'[p].ops[k] = <<"cd", Fleet(rev)[proc[p].i][1]>>
            => /\ proc'[p].failed_repos = proc[p].failed_repos + 1
               /\ proc'[p].pc \in {"loop", "caddy"}
               /\ caddyfile' = caddyfile]_vars

\* A run is at its summary: one service had no compose file and was counted,
\* another one is routed.
C20_Witness ==
    \E p \in Procs : \E a, b \in Names :
        /\ proc[p].pc = "summary"
        /\ NoComposeFile(p, a)
        /\ proc[p].failed_repos = 1
        /\ Ran(p, "route", b) /\ HasBlock(p, b)

\* The container caddy_proxy exists with the Caddyfile of d mounted: under
\* --restart unless-stopped it starts again on its own, and reads that file,
\* at any moment from its start by a run until a run removes it.
ProxyMayRead(d) == proxy = d

\* Nothing is wrong with service n: every regeneration that finishes writes a
\* route for it.
AlwaysRouted(n) ==
    /\ world.svc[n].remote = "main" /\ world.svc[n].manifest /\ world.svc[n].build
    /\ \E k \in 1..Len(world.svc[n].group) : Exposes(world.svc[n].group[k], DeclaredPort(n))

\* C21: whenever the proxy reads the routing file, at its start by a run or
\* at a restart of its own while a later run is in progress or was killed,
\* the file is the complete output of a finished regeneration: it is not
\* empty, and it has the route of every service with which nothing is wrong.
C21_ProxyReadsCompleteFile ==
    \A d \in Dirs :
        ProxyMayRead(d) /\ docker.compose =>
            \A n \in Names :
                AlwaysRouted(n) => \E k \in 1..Len(caddyfile[d]) : caddyfile[d][k].name = n

\* C22: every write to the routing file, the truncation and each appended
\* block, is made by a run that holds the lock of its base directory at that
\* moment: a run about to write made the lock directory and it is still its
\* own, and the file changes only in a step of such a run; a run that found
\* the lock taken writes nothing.
C22_OnlyLockHolderWrites ==
    /\ [](\A p \in Procs :
            proc[p].pc \in {"trunc", "fill", "loop"} =>
                proc[p].made /\ ~proc[p].sawLock /\ lockDir[Dir(p)] = p)
    /\ [][\A d \in Dirs :
            caddyfile'[d] # caddyfile[d] =>
                \E p \in Procs :
                    /\ proc'[p] # proc[p] /\ Dir(p) = d
                    /\ proc[p].made /\ lockDir[d] = p]_vars

\* A run holding the lock has written routes while another invocation on the
\* same base directory was turned away.
C22_Witness ==
    \E p, q \in Procs :
        /\ Active(p) /\ lockDir[Dir(p)] = p /\ caddyfile[Dir(p)] # <<>>
        /\ proc[p].pc \in {"loop", "caddy"}
        /\ proc[q].sawLock /\ Dir(q) = Dir(p)

\* The lock directory of d is there and the process that made it is gone.
Stale(d) == lockDir[d] # 0 /\ proc[lockDir[d]].pc = "exited"

\* C23: when a lock marker is present and its maker is gone (killed before
\* its exit handler could run), the marker stays as it is, no invocation on
\* that base directory gets past acquire_lock, and each one that reaches
\* acquire_lock leaves there with code 1 (or by a signal), the marker not
\* being its own.
C23_StaleLockStays ==
    /\ [](\A p \in Procs :
            Running(p) /\ Stale(Dir(p)) => proc[p].pc \in {"setup", "lock"})
    /\ [][\A d \in Dirs :
            Stale(d) =>
                /\ lockDir'[d] = lockDir[d]
                /\ \A p \in Procs :
                       proc[p].pc = "lock" /\ Dir(p) = d /\ proc'[p] # proc[p] =>
                           /\ proc'[p].pc = "exited"
                           /\ proc'[p].rc \in {1, 137, 143}
                           /\ ~proc'[p].made]_vars

\* The holder was killed, its marker is still there, and a later invocation
\* was turned away by it.
C23_Witness ==
    \E q, p \in Procs :
        /\ q < p /\ Dir(p) = Dir(q)
        /\ proc[q].pc = "exited" /\ proc[q].rc = 137 /\ lockDir[Dir(q)] = q
        /\ proc[p].pc = "exited" /\ proc[p].rc = 1 /\ proc[p].sawLock

\* The restart-policy update of service n fails; its container cannot be
\* joined to the shared network (which may not exist).
PolicyFails(n) == ~world.svc[n].policy
JoinFails(n) == ~(network /\ world.svc[n].join)

\* C24: a failure of the join-to-network step or of the restart-policy
\* update never makes a service count as failed, never omits its route entry
\* and never aborts the run: the round of the loop in which a service is
\* built and one of the two steps fails leaves the failure counter as it was,
\* goes on with the next record or with what follows the loop, and where a
\* container was found and the join was tried its route is in the file.
C24_BestEffortStepsIgnored ==
    [][\A p \in Procs :
          LET n == Fleet(rev)[proc[p].i][1]
              Did(op) == \E k \in 1..Len(proc'[p].ops) : proc'[p].ops[k] = <<op, n>>
          IN  /\ proc[p].pc = "loop"
              /\ \/ Did("policy") /\ PolicyFails(n)
                 \/ Did("connect") /\ JoinFails(n)
              => /\ proc'[p].failed_repos = proc[p].failed_repos
                 /\ proc'[p].pc \in {"loop", "caddy", "summary"}
                 /\ Did("connect") =>
                        /\ Did("route")
                        /\ \E k \in 1..Len(caddyfile'[Dir(p)]) :
                               caddyfile'[Dir(p)][k].name = n]_vars

\* A run of deploy.sh is at its summary with no failure counted: the policy
\* update of one service failed, the join of another failed, both are routed.
C24_Witness ==
    \E p \in Procs : \E a, b \in Names :
        /\ rev = "deploy" /\ proc[p].pc = "summary" /\ proc[p].failed_repos = 0
        /\ Ran(p, "policy", a) /\ PolicyFails(a) /\ HasBlock(p, a)
        /\ Ran(p, "connect", b) /\ JoinFails(b) /\ HasBlock(p, b)

\* How often p's run has started the proxy so far.
ProxyStarts(p) ==
    Cardinality({k \in 1..Len(proc[p].ops) : proc[p].ops[k] = <<"proxy", "">>})

\* C25: in the label-driven revision no routing file is ever created,
\* truncated or appended to and no route is kept per service; the one routing
\* action of a run is the removal and recreation of the proxy, once, after
\* the loop has processed every service, whatever the number of failures: the
\* loop always hands over to it.
C25_LabelsKeepNoRoutes ==
    /\ [](rev = "labels" =>
            /\ \A d \in Dirs : caddyfile[d] = <<>>
            /\ \A p \in Procs :
                   /\ \A n \in Names : ~Ran(p, "route", n) /\ ~Ran(p, "discover", n)
                   /\ ProxyStarts(p) = (IF proc[p].pc = "summary" THEN 1 ELSE 0)
                   /\ proc[p].pc \in {"caddy", "summary"} =>
                          \A n \in Names : Ran(p, "clone", n) \/ Ran(p, "stash", n))
    /\ [][rev = "labels" =>
            /\ caddyfile' = caddyfile
            /\ \A p \in Procs :
                   /\ proc[p].pc = "loop" /\ proc'[p].pc # "loop" =>
                          \/ proc'[p].pc = "caddy"
                          \/ proc'[p].pc = "exited" /\ proc'[p].rc \in {137, 143}
                   /\ proxy' # proxy => proc[p].pc # "caddy" \/ proc'[p].pc # "caddy"]_vars

\* A run of the label-driven revision with a failed service has recreated the
\* proxy and is at its summary; there is no routing file.
C25_Witness ==
    \E p \in Procs :
        /\ rev = "labels" /\ proc[p].pc = "summary" /\ proc[p].failed_repos >= 1
        /\ ProxyStarts(p) = 1 /\ proxy = Dir(p)
        /\ caddyfile[Dir(p)] = <<>>

\* The git commands of p's step for service n: the operations the step added.
Added(p, op, n) ==
    \E k \in (Len(proc[p].ops) + 1)..Len(proc'[p].ops) : proc'[p].ops[k] = <<op, n>>

\* C26: a checkout that exists is there in every later state, of this run and
\* of every later one, and the step of the loop for a service whose checkout
\* exists never clones it: it stashes and pulls; a service is cloned only
\* when it has no checkout.
C26_CheckoutsKept ==
    [][/\ \A d \in Dirs : checkout[d] \subseteq checkout'[d]
       /\ \A p \in Procs : \A n \in Names :
              /\ Added(p, "clone", n) => n \notin checkout[Dir(p)]
              /\ n \in checkout[Dir(p)] /\ proc[p].pc = "loop" /\ Len(proc'[p].ops) > Len(proc[p].ops)
                 /\ Fleet(rev)[proc[p].i][1] = n =>
                     /\ Added(p, "stash", n) /\ Added(p, "pull main", n)
                     /\ n \in checkout'[Dir(p)]]_vars

\* A later run has stashed and pulled, and not cloned, a service whose
\* checkout an earlier run of the same base directory left behind.
C26_Witness ==
    \E p, q \in Procs : \E n \in Names :
        /\ q < p /\ Dir(q) = Dir(p) /\ proc[q].pc = "exited"
        /\ n \in checkout[Dir(p)]
        /\ Ran(p, "stash", n) /\ Ran(p, "pull main", n) /\ ~Ran(p, "clone", n)

\* s is an initial part of t.
Prefix(s, t) == Len(s) <= Len(t) /\ SubSeq(t, 1, Len(s)) = s

Holders(d) == {p \in Procs : Active(p) /\ Dir(p) = d}

\* C28: among the invocations of one base directory at most one is between
\* its successful acquire_lock and its exit, and it is the one the marker
\* belongs to; of the calls of acquire_lock that meet, the one that finds no
\* marker succeeds and every call made while the marker is there fails, in
\* every interleaving.
C28_OneHolderPerBaseDir ==
    /\ [](\A d \in Dirs : /\ Cardinality(Holders(d)) <= 1
                          /\ \A p \in Holders(d) : lockDir[d] = p)
    /\ [][\A p \in Procs :
              proc[p].pc = "lock" /\ proc'[p] # proc[p] /\ proc'[p].rc \notin {137, 143} =>
                  /\ proc'[p].made <=> lockDir[Dir(p)] = 0
                  /\ proc'[p].made <=> Running(p)'
                  /\ proc'[p].made => lockDir'[Dir(p)] = p]_vars

\* Two calls met: one invocation has made the marker and not yet set its
\* trap, and the other, of the same base directory, was refused meanwhile.
C28_Witness ==
    \E p, q \in Procs :
        /\ p # q /\ Dir(p) = Dir(q)
        /\ proc[p].pc = "trap" /\ proc[p].made /\ lockDir[Dir(p)] = p
        /\ proc[q].pc = "exited" /\ proc[q].sawLock /\ ~proc[q].made

\* C29: an invocation that failed to acquire the lock never removes the
\* marker. The release handler is set only by an invocation that has made
\* the marker itself, no step of an invocation that has not made it changes
\* any marker, and while the holder runs its marker is there, whichever
\* invocations have been refused and have exited meanwhile.
C29_RefusedLeavesMarker ==
    /\ [](\A p \in Procs :
              /\ proc[p].trap => proc[p].made
              /\ proc[p].sawLock => ~proc[p].trap /\ ~proc[p].made
              /\ \A q \in Procs :
                     proc[q].sawLock /\ Dir(q) = Dir(p) /\ Active(p) => lockDir[Dir(p)] = p)
    /\ [][\A p \in Procs :
              proc'[p] # proc[p] /\ ~proc'[p].made => lockDir' = lockDir]_vars

\* The holder has set its trap and reached its summary with its marker in
\* place, an invocation refused on that marker having exited on the way.
C29_Witness ==
    \E p, q \in Procs :
        /\ Dir(p) = Dir(q) /\ proc[q].pc = "exited" /\ proc[q].sawLock /\ proc[q].rc = 1
        /\ proc[p].pc = "summary" /\ proc[p].trap /\ lockDir[Dir(p)] = p

\* The prefix of the site address of a route under a TLS mode.
SchemeOf(tls) == IF tls THEN "" ELSE "http://"

\* C30: a run decides its TLS mode in one step, the detection, which comes
\* before the file is emptied and so before the run writes any route; the
\* mode does not change afterwards, routes are written only after it, and
\* every route in the file of a run that has emptied it carries that mode:
\* all have the http:// prefix or none has.
C30_OneTlsModePerRun ==
    /\ [](\A p \in Procs :
              Active(p) /\ proc[p].pc \in {"fill", "loop", "caddy", "summary"} =>
                  \A k \in 1..Len(caddyfile[Dir(p)]) :
                      caddyfile[Dir(p)][k].scheme = SchemeOf(proc[p].ENABLE_TLS))
    /\ [][/\ \A p \in Procs :
                 proc'[p].ENABLE_TLS # proc[p].ENABLE_TLS /\ Running(p)' =>
                     proc[p].pc = "tls" /\ proc'[p].pc = "trunc"
          /\ \A d \in Dirs :
                 caddyfile'[d] # caddyfile[d] /\ caddyfile'[d] # <<>> =>
                     \E p \in Procs : /\ Dir(p) = d /\ proc[p].pc \in {"fill", "loop"}
                                      /\ proc'[p].ENABLE_TLS = proc[p].ENABLE_TLS]_vars

\* A run that found the domain on this machine's address is at its summary
\* with a route for every service, none with the http:// prefix.
C30_Witness ==
    \E p \in Procs :
        /\ proc[p].pc = "summary" /\ Len(caddyfile[Dir(p)]) = NumRepos
        /\ proc[p].ENABLE_TLS
        /\ caddyfile[Dir(p)][1].scheme = "" /\ caddyfile[Dir(p)][NumRepos].scheme = ""

\* What an answered request was: its pathname, whether it carried a code,
\* whether the token endpoint was asked and answered with an error.
OnPath(e, path) == e.request.pathname = path
CarriesCode(e) == ~Falsy(Get(e.request.search, "code"))
Exchanged(e) == e.reply # <<>>
ExchangeError(e) ==
    Exchanged(e) /\ e.reply[1].parses /\ ~Falsy(Get(e.reply[1].data, "error"))

\* The response is the page, and the message the page posts carries a token.
EmbedsToken(e) ==
    \E t \in {"gho_1", "gho_2"} :
        e.response = Response(200, "text/html", Page([found |-> TRUE, value |-> t]))

\* C31: the relay answers with a page that embeds an access token only a
\* request to /api/callback that carries a code and whose exchange brought no
\* error; a callback without code gets 400 and no exchange is made for it,
\* an exchange that brought an error gets 400, /api/auth with a provider
\* other than github gets 400 and no redirect, any other pathname gets 404.
C31_TokenOnlyAfterCleanExchange ==
    /\ [](\A k \in 1..Len(served) :
            LET e == served[k]
                provider == Get(e.request.search, "provider")
            IN  /\ EmbedsToken(e) =>
                       /\ OnPath(e, "/api/callback") /\ CarriesCode(e)
                       /\ Exchanged(e) /\ ~ExchangeError(e)
                /\ OnPath(e, "/api/callback") /\ ~CarriesCode(e) =>
                       e.response.status = 400 /\ ~Exchanged(e)
                /\ ExchangeError(e) => e.response.status = 400
                /\ OnPath(e, "/api/auth") /\ ~(provider.found /\ provider.value = "github") =>
                       e.response.status = 400 /\ e.response.type # "redirect"
                /\ ~OnPath(e, "/api/auth") /\ ~OnPath(e, "/api/callback") =>
                       e.response.status = 404)
    /\ [][Len(served') > Len(served) =>
              LET e == served'[Len(served')]
              IN  /\ ~(OnPath(e, "/api/callback") /\ CarriesCode(e)) => posted' = posted
                  /\ Exchanged(e) <=> posted' # posted]_vars

\* The relay has answered a callback that carried a code with a page that
\* embeds the token, and one without code with 400, with one exchange made.
C31_Witness ==
    \E j, k \in 1..Len(served) :
        /\ EmbedsToken(served[j]) /\ CarriesCode(served[j])
        /\ OnPath(served[k], "/api/callback") /\ ~CarriesCode(served[k])
        /\ served[k].response.status = 400
        /\ Len(posted) = 1

\* Two answered requests differ at most in their state parameter and in what
\* the relay had answered before them: both are callbacks with the same code
\* and the token endpoint, where asked, gave the same reply.
SameCodeAndReply(e, f) ==
    /\ OnPath(e, "/api/callback") /\ OnPath(f, "/api/callback")
    /\ Get(e.request.search, "code") = Get(f.request.search, "code")
    /\ e.reply = f.reply

====
